---------------------------- MODULE Spec2Model ----------------------------
(***************************************************************************)
(* A model of models/dictionary_tree.py (class DictionaryTree): the nested *)
(* dictionary `tree`, the `translations` store, the derived `languages`    *)
(* and the operations that read and write them.                            *)
(*                                                                         *)
(* Data representation                                                     *)
(*   symbol        a string ("a", "A", "cat", ...)                         *)
(*   entry id      [t |-> "str" | "int" | "none", s |-> text]: a Python    *)
(*                 str, int or None; 1 and "1" differ in t only            *)
(*   entry         [isTuple |-> BOOLEAN, syms |-> sequence of symbols]     *)
(*   tree          function from node paths (non-empty sequences of        *)
(*                 symbols) to [term |-> BOOLEAN, ids |-> sequence of ids]:*)
(*                 the node reached by tree[p1][p2]..., term = the '-1'    *)
(*                 key is present, ids = its list                          *)
(*   translations  sequence of [key |-> id, rec |-> record] with distinct  *)
(*                 keys: a Python dict in insertion order                  *)
(*   record        [present |-> TRUE, word |-> sequence of symbols,        *)
(*                  translations |-> function language -> value];          *)
(*                 EmptyRec is the empty dict {}; hasTr = the record has   *)
(*                 a 'translations' key                                    *)
(*   value         [isStr |-> BOOLEAN, s |-> sequence of characters]       *)
(*   languages     the set of the elements of the list self.languages,     *)
(*                 which the code reads with `in` only                     *)
(*                                                                         *)
(* A word is a sequence of symbols whether Python holds it as a tuple or   *)
(* as a list (json.load gives lists).  Symbols are strings other than the  *)
(* terminator key '-1', and IntSymbol, the integer 7 used as a symbol: it  *)
(* has no lower().  Queries hold strings only.                             *)
(*                                                                         *)
(* Besides the attributes of the instance the state holds `inserted`, the  *)
(* add_entry calls accepted since the tree was last emptied, `file`, the   *)
(* document on disk, `saved`, the instance as it was when it wrote the     *)
(* document, `app_tree`, what the global `tree` of main.py is bound to (the *)
(* instance, or None after a failed load), and `result`, what the last     *)
(* call returned or raised.                                                *)
(***************************************************************************)
EXTENDS Integers, Sequences, FiniteSets, TLC

VARIABLES tree, translations, languages, lowercase, inserted, file, saved, app_tree,
          result

vars == <<tree, translations, languages, lowercase, inserted, file, saved, app_tree,
          result>>

----------------------------------------------------------------------------
(* Bounds of the model *)

\* add_entry calls accepted on one instance between two resets
MaxEntries == 3

----------------------------------------------------------------------------
(* Values *)

terminator == "-1"

StrId(s) == [t |-> "str", s |-> s]
IntId(s) == [t |-> "int", s |-> s]
NoneId == [t |-> "none", s |-> "None"]

\* Python str(entry_id): the decimal text of an int, "None" for None
Str(id) == [t |-> "str", s |-> id.s]

\* str.lower() on a symbol
Lower(s) ==
    CASE s = "A" -> "a"
      [] s = "B" -> "b"
      [] s = "C" -> "c"
      [] s = "CAT" -> "cat"
      [] OTHER -> s

LowerSeq(seq) == [k \in 1..Len(seq) |-> Lower(seq[k])]

\* a symbol that is not a str: the int 7
IntSymbol == "int 7"

\* the key json.dump writes for a symbol: the int 7 becomes "7"
JsonSymbol(s) == IF s = IntSymbol THEN "7" ELSE s

JsonPath(p) == [k \in 1..Len(p) |-> JsonSymbol(p[k])]

\* e.lower() exists for every e of the sequence (else AttributeError)
AllStr(seq) == \A k \in 1..Len(seq) : seq[k] # IntSymbol

\* an `entry` argument: a tuple, or something else (a list)
Tuple(syms) == [isTuple |-> TRUE, syms |-> syms]
NotTuple(syms) == [isTuple |-> FALSE, syms |-> syms]

\* a `sequence` argument: a list, or something else (a tuple)
List(syms) == [isList |-> TRUE, syms |-> syms]
NotList(syms) == [isList |-> FALSE, syms |-> syms]

Text(chars) == [isStr |-> TRUE, s |-> chars]
NotText == [isStr |-> FALSE, s |-> <<>>]

Rec(word, tr) == [present |-> TRUE, hasTr |-> TRUE, word |-> word, translations |-> tr]
EmptyRec == [present |-> FALSE, hasTr |-> FALSE, word |-> <<>>, translations |-> <<>>]

\* a record {'word': ...} without a 'translations' key
BareRec(word) == [present |-> TRUE, hasTr |-> FALSE, word |-> word, translations |-> <<>>]

\* self.tree = {}
EmptyTree == [p \in {} |-> 0]

\* a dict argument and a non-dict argument (None) for `translations`/`entries`
Dict(items) == [isDict |-> TRUE, items |-> items]
NotDict == [isDict |-> FALSE, items |-> <<>>]

\* what a call did: it returned val, or raised err
Ok(op, arg, val) == [op |-> op, arg |-> arg, ok |-> TRUE, err |-> "", val |-> val]
Raise(op, arg, err) == [op |-> op, arg |-> arg, ok |-> FALSE, err |-> err, val |-> <<>>]

\* DictionaryTreeException is the one error class of the module; a KeyError
\* is a Python built-in that the module does not wrap
IsDomainError(r) == ~r.ok /\ r.err \notin {"KeyError", "AttributeError"}

----------------------------------------------------------------------------
(* Validation helpers *)

\* is_populated with the test of the translation store left out
IsPopulatedTreeOnly(t, tr) == DOMAIN t # {}

IsPopulated(t, tr) ==
    IF DOMAIN t = {} THEN FALSE
    ELSE IF Len(tr) = 0 THEN FALSE
    ELSE TRUE

IsValidSequence(sequence) ==
    IF ~sequence.isList THEN FALSE
    ELSE Len(sequence.syms) # 0

IsValidTranslations(tr) == tr.isDict /\ Len(tr.items) # 0

IsValidEntry(entry) == entry.isTuple /\ Len(entry.syms) # 0

IsValidEntryId(id) ==
    /\ id.t = "str" \/ id.t = "int"
    /\ ~(id.t = "str" /\ id.s = "")

----------------------------------------------------------------------------
(* The tree *)

NewNode == [term |-> FALSE, ids |-> <<>>]

Put(t, p, v) == [q \in DOMAIN t \cup {p} |-> IF q = p THEN v ELSE t[q]]

\* __get_sub_tree: the node at key_list (the root for an empty key_list), or
\* a fresh empty dict, held by nobody, when some key on the way is missing
GetSubTree(t, key_list) ==
    IF Len(key_list) = 0 THEN [detached |-> FALSE, path |-> <<>>]
    ELSE IF \A k \in 1..Len(key_list) : SubSeq(key_list, 1, k) \in DOMAIN t
         THEN [detached |-> FALSE, path |-> key_list]
         ELSE [detached |-> TRUE, path |-> key_list]

\* the loop body assigning [entry_id] where line 155 appends
AddEntryStepOverwrite(t, entry, i, key_list, entry_id) ==
    LET symbol == entry[i]
        sub_d == GetSubTree(t, key_list)
        child == Append(sub_d.path, symbol)
    IN  IF sub_d.detached THEN t
        ELSE IF i < Len(entry)
             THEN IF child \notin DOMAIN t THEN Put(t, child, NewNode) ELSE t
             ELSE IF child \notin DOMAIN t
                  THEN Put(t, child, [term |-> TRUE, ids |-> <<entry_id>>])
                  ELSE IF t[child].term
                       THEN Put(t, child, [term |-> TRUE, ids |-> <<entry_id>>])
                       ELSE Put(t, child, [term |-> TRUE, ids |-> <<entry_id>>])

\* one iteration of the loop of add_entry (lines 141-157), on symbol entry[i]
AddEntryStep(t, entry, i, key_list, entry_id) ==
    LET symbol == entry[i]
        sub_d == GetSubTree(t, key_list)
        child == Append(sub_d.path, symbol)
    IN  IF sub_d.detached THEN t
        ELSE IF i < Len(entry)
             THEN IF child \notin DOMAIN t THEN Put(t, child, NewNode) ELSE t
             ELSE IF child \notin DOMAIN t
                  THEN Put(t, child, [term |-> TRUE, ids |-> <<entry_id>>])
                  ELSE IF t[child].term
                       THEN Put(t, child, [term |-> TRUE,
                                           ids |-> Append(t[child].ids, entry_id)])
                       ELSE Put(t, child, [term |-> TRUE, ids |-> <<entry_id>>])

RECURSIVE AddEntryLoop(_, _, _, _, _)
AddEntryLoop(t, entry, i, key_list, entry_id) ==
    IF i > Len(entry) THEN t
    ELSE AddEntryLoop(AddEntryStep(t, entry, i, key_list, entry_id),
                      entry, i + 1, Append(key_list, entry[i]), entry_id)

\* the tree after a valid add_entry(entry, entry_id)
AddEntryTree(t, lc, syms, entry_id) ==
    AddEntryLoop(t, IF lc THEN LowerSeq(syms) ELSE syms, 1, <<>>, entry_id)

\* has_tree_entry, lines 279-302, on a valid sequence of a populated
\* instance.  The two returns of lines 296-302 are inside the body of the
\* for loop, so the first iteration (n = 0) always returns: the walk looks
\* at the node of the first symbol only.
HasTreeEntry(t, lc, syms) ==
    LET sequence == IF lc THEN LowerSeq(syms) ELSE syms
        item == sequence[1]
        sub_tree == <<item>>
    IN  IF sub_tree \notin DOMAIN t THEN [ids |-> <<>>, sym |-> terminator]
        ELSE IF ~t[sub_tree].term THEN [ids |-> <<>>, sym |-> item]
        ELSE [ids |-> t[sub_tree].ids, sym |-> item]

----------------------------------------------------------------------------
(* The translation store *)

Keys(tr) == {tr[k].key : k \in 1..Len(tr)}

Lookup(tr, key) == tr[CHOOSE k \in 1..Len(tr) : tr[k].key = key].rec

\* get_entry, lines 245-255
GetEntry(tr, entry_id) ==
    IF ~IsValidEntryId(Str(entry_id)) THEN Raise("get_entry", entry_id, "invalid_entry_id")
    ELSE IF ~IsValidTranslations(Dict(tr))
         THEN Raise("get_entry", entry_id, "invalid_translations")
    ELSE IF entry_id \in Keys(tr)
         THEN IF Str(entry_id) \in Keys(tr)
              THEN Ok("get_entry", entry_id, Lookup(tr, Str(entry_id)))
              ELSE Raise("get_entry", entry_id, "KeyError")
    ELSE Ok("get_entry", entry_id, EmptyRec)

\* the languages set_translations derives (lines 314-316)
FirstLanguages(items) == DOMAIN items[1].rec.translations

----------------------------------------------------------------------------
(* Segmentation *)

\* __get_sequence_entries, lines 467-474: the windows (n, i-1), n ascending
\* and then i ascending, whose lookup gives a non-empty id list
RECURSIVE Windows(_, _, _, _, _)
Windows(t, lc, sequence, n, i) ==
    IF n >= Len(sequence) THEN <<>>
    ELSE IF i > Len(sequence) THEN Windows(t, lc, sequence, n + 1, n + 2)
    ELSE LET entry_ids == HasTreeEntry(t, lc, SubSeq(sequence, n + 1, i)).ids
             rest == Windows(t, lc, sequence, n, i + 1)
         IN  IF Len(entry_ids) > 0
             THEN <<[syms |-> SubSeq(sequence, n + 1, i), span |-> <<n, i - 1>>,
                     ids |-> entry_ids]>> \o rest
             ELSE rest

GetSequenceEntries(t, lc, sequence) == Windows(t, lc, sequence, 0, 1)

\* lines 179-187: one row per entry id of each match
RECURSIVE Rows(_, _)
Rows(tr, entries) ==
    IF Len(entries) = 0 THEN <<>>
    ELSE LET entry == Head(entries)
         IN  [k \in 1..Len(entry.ids) |->
                 [span |-> entry.span, id |-> entry.ids[k],
                  got |-> GetEntry(tr, entry.ids[k])]]
             \o Rows(tr, Tail(entries))

\* get_entries_in_sequence, lines 167-187
GetEntriesInSequence(t, tr, lc, sequence) ==
    IF ~IsPopulated(t, tr) THEN Raise("get_entries_in_sequence", sequence, "empty")
    ELSE IF ~IsValidSequence(sequence)
         THEN Raise("get_entries_in_sequence", sequence, "invalid_sequence")
    ELSE LET seq == IF lc THEN LowerSeq(sequence.syms) ELSE sequence.syms
             rows == Rows(tr, GetSequenceEntries(t, lc, seq))
             bad == {k \in 1..Len(rows) : ~rows[k].got.ok}
         IN  IF bad # {}
             THEN Raise("get_entries_in_sequence", sequence,
                        rows[CHOOSE k \in bad : \A j \in bad : k <= j].got.err)
             ELSE Ok("get_entries_in_sequence", sequence,
                     [k \in 1..Len(rows) |->
                         [span |-> rows[k].span, id |-> rows[k].id,
                          rec |-> rows[k].got.val]])

\* the public has_tree_entry, lines 270-302
HasTreeEntryCall(t, tr, lc, sequence) ==
    IF ~IsPopulated(t, tr) THEN Raise("has_tree_entry", sequence, "empty")
    ELSE IF ~IsValidSequence(sequence)
         THEN Raise("has_tree_entry", sequence, "invalid_sequence")
    ELSE Ok("has_tree_entry", sequence, HasTreeEntry(t, lc, sequence.syms))

----------------------------------------------------------------------------
(* Search *)

Matches == {"exact", "starts_with", "contains"}

\* WordMatches with the windows of 'contains' one short: range(len(word) - n)
WordMatchesShortRange(sequence, word, match) ==
    LET n == Len(sequence)
    IN  \/ /\ match = "exact"
           /\ sequence = word
        \/ /\ match = "starts_with"
           /\ sequence = SubSeq(word, 1, IF n < Len(word) THEN n ELSE Len(word))
        \/ /\ match = "contains"
           /\ \E i \in 0..(Len(word) - n - 1) : sequence = SubSeq(word, i + 1, i + n)

\* WordMatches with the slices of 'starts_with' one short: [0:n - 1] on both
WordMatchesShortSlice(sequence, word, match) ==
    LET n == Len(sequence)
    IN  \/ /\ match = "exact"
           /\ sequence = word
        \/ /\ match = "starts_with"
           /\ SubSeq(sequence, 1, n - 1)
                = SubSeq(word, 1, IF n - 1 < Len(word) THEN n - 1 ELSE Len(word))
        \/ /\ match = "contains"
           /\ \E i \in 0..(Len(word) - n) : sequence = SubSeq(word, i + 1, i + n)

\* the test lines 423-433 apply to one record, on the lowercased sequence
WordMatches(sequence, word, match) ==
    LET n == Len(sequence)
    IN  \/ /\ match = "exact"
           /\ sequence = word
        \/ /\ match = "starts_with"
           /\ sequence = SubSeq(word, 1, IF n < Len(word) THEN n ELSE Len(word))
        \/ /\ match = "contains"
           /\ \E i \in 0..(Len(word) - n) : sequence = SubSeq(word, i + 1, i + n)

\* __search_words, lines 416-434: the keys of the matching records
SearchWords(tr, syms, match) ==
    LET sequence == LowerSeq(syms)
        hits == SelectSeq(tr, LAMBDA item :
                    WordMatches(sequence, LowerSeq(item.rec.word), match))
    IN  [k \in 1..Len(hits) |-> hits[k].key]

\* get_entries_containing_sequence, lines 197-212
GetEntriesContainingSequence(t, tr, sequence, match) ==
    LET op == "get_entries_containing_sequence"
        arg == [sequence |-> sequence, match |-> match]
    IN  IF ~IsPopulated(t, tr) THEN Raise(op, arg, "empty")
        ELSE IF ~IsValidSequence(sequence) THEN Raise(op, arg, "invalid_sequence")
        ELSE IF match \notin Matches THEN Raise(op, arg, "invalid_match")
        ELSE LET entries == SearchWords(tr, sequence.syms, match)
                 got == [k \in 1..Len(entries) |-> GetEntry(tr, entries[k])]
                 bad == {k \in 1..Len(got) : ~got[k].ok}
             IN  IF bad # {}
                 THEN Raise(op, arg, got[CHOOSE k \in bad : \A j \in bad : k <= j].err)
                 ELSE Ok(op, arg, [k \in 1..Len(got) |-> got[k].val])

\* `a in b` on two Python strings
InText(a, b) == \E i \in 0..(Len(b) - Len(a)) : SubSeq(b, i + 1, i + Len(a)) = a

\* __search_translations, lines 445-451; value['translations'][lang] raises
\* KeyError on a record that has no such language
SearchTranslations(tr, term, lang) ==
    LET op == "get_glyph_words"
        arg == [term |-> term, lang |-> lang]
    IN  IF \E k \in 1..Len(tr) : lang \notin DOMAIN tr[k].rec.translations
        THEN Raise(op, arg, "KeyError")
        ELSE LET hits == SelectSeq(tr, LAMBDA item :
                            /\ item.rec.translations[lang].isStr
                            /\ InText(LowerSeq(term),
                                      LowerSeq(item.rec.translations[lang].s)))
             IN  Ok(op, arg, [k \in 1..Len(hits) |-> hits[k].rec])

\* get_glyph_words, lines 224-237
GetGlyphWords(t, tr, langs, term, lang) ==
    LET op == "get_glyph_words"
        arg == [term |-> term, lang |-> lang]
    IN  IF ~IsPopulated(t, tr) THEN Raise(op, arg, "empty")
        ELSE IF Len(term) = 0 THEN Raise(op, arg, "empty_term")
        ELSE IF lang \notin langs THEN Raise(op, arg, "unsupported_language")
        ELSE SearchTranslations(tr, term, lang)

----------------------------------------------------------------------------
(* Persistence *)

\* the key json.dump writes for a dict key: a str as it is, an int as its
\* decimal text, None as "null"
JsonKey(id) ==
    IF id.t = "none" THEN StrId("null") ELSE StrId(id.s)

\* the dict json.load builds from the object json.dump wrote: every key is a
\* string; of two items with one key the first keeps its place and the last
\* gives the value
RECURSIVE JsonItems(_, _)
JsonItems(items, done) ==
    IF Len(items) = 0 THEN done
    ELSE LET key == JsonKey(Head(items).key)
             item == [key |-> key, rec |-> Head(items).rec]
         IN  JsonItems(Tail(items),
                 IF key \in Keys(done)
                 THEN [k \in 1..Len(done) |->
                          IF done[k].key = key THEN item ELSE done[k]]
                 ELSE Append(done, item))

\* the tree json.load builds from the tree json.dump wrote (no two keys of
\* a node of the trees met here become one string)
JsonTree(t) ==
    [q \in {JsonPath(p) : p \in DOMAIN t} |->
        t[CHOOSE p \in DOMAIN t : JsonPath(p) = q]]

NoFile == [exists |-> FALSE]

\* the entries whose insertion builds the tree json.load returns
JsonInserted(ins) ==
    [k \in 1..Len(ins) |->
        [entry |-> [isTuple |-> TRUE, syms |-> JsonPath(ins[k].entry.syms)],
         id |-> ins[k].id]]

\* the document serialize writes (lines 380-385); decodable: json.load
\* reads it, hasTree and hasTranslations: it has the key
Document(t, tr, ins) ==
    [exists |-> TRUE, decodable |-> TRUE, hasTree |-> TRUE, hasTranslations |-> TRUE,
     tree |-> JsonTree(t), translations |-> JsonItems(tr, <<>>),
     inserted |-> JsonInserted(ins)]

----------------------------------------------------------------------------
(* Operations *)

NoSaved == [exists |-> FALSE]

Init ==
    /\ tree = EmptyTree
    /\ translations = <<>>
    /\ languages = {}
    /\ lowercase \in BOOLEAN
    /\ inserted = <<>>
    /\ file = NoFile
    /\ saved = NoSaved
    /\ app_tree = "DictionaryTree"
    /\ result = Ok("__init__", <<>>, <<>>)

\* DictionaryTree(lowercase): a new instance replaces the current one
\* (__init__, lines 89-94, and __initialise, lines 495-502)
Construct(lc) ==
    /\ tree' = EmptyTree
    /\ translations' = <<>>
    /\ languages' = {}
    /\ lowercase' = lc
    /\ inserted' = <<>>
    /\ result' = Ok("__init__", <<>>, <<>>)
    /\ UNCHANGED <<app_tree, file, saved>>

\* add_entry(entry, entry_id), lines 131-157
AddEntry(entry, entry_id) ==
    LET arg == [entry |-> entry, id |-> entry_id]
    IN  /\ Len(inserted) < MaxEntries
        /\ IF ~IsValidEntry(entry)
           THEN /\ result' = Raise("add_entry", arg, "invalid_entry")
                /\ UNCHANGED <<tree, inserted>>
           ELSE IF ~IsValidEntryId(entry_id)
           THEN /\ result' = Raise("add_entry", arg, "invalid_entry_id")
                /\ UNCHANGED <<tree, inserted>>
           ELSE IF lowercase /\ ~AllStr(entry.syms)
           THEN /\ result' = Raise("add_entry", arg, "AttributeError")
                /\ UNCHANGED <<tree, inserted>>
           ELSE /\ tree' = AddEntryTree(tree, lowercase, entry.syms, entry_id)
                /\ inserted' = Append(inserted, arg)
                /\ result' = Ok("add_entry", arg, <<>>)
        /\ UNCHANGED <<app_tree, translations, languages, lowercase, file, saved>>

\* set_translations(translations), lines 309-317
SetTranslations(trs) ==
    /\ IF ~IsValidTranslations(trs)
       THEN /\ result' = Raise("set_translations", <<>>, "invalid_translations")
            /\ UNCHANGED <<translations, languages>>
       ELSE IF ~trs.items[1].rec.hasTr
       THEN /\ result' = Raise("set_translations", <<>>, "KeyError")
            /\ UNCHANGED <<translations, languages>>
       ELSE /\ languages' = FirstLanguages(trs.items)
            /\ translations' = trs.items
            /\ result' = Ok("set_translations", <<>>, <<>>)
    /\ UNCHANGED <<app_tree, tree, lowercase, inserted, file, saved>>

\* has_tree_entry(sequence)
DoHasTreeEntry(sequence) ==
    /\ result' = HasTreeEntryCall(tree, translations, lowercase, sequence)
    /\ UNCHANGED <<app_tree, tree, translations, languages, lowercase, inserted, file, saved>>

\* get_entries_in_sequence(sequence)
DoGetEntriesInSequence(sequence) ==
    /\ result' = GetEntriesInSequence(tree, translations, lowercase, sequence)
    /\ UNCHANGED <<app_tree, tree, translations, languages, lowercase, inserted, file, saved>>

\* get_entries_containing_sequence(sequence, match)
DoGetEntriesContainingSequence(sequence, match) ==
    /\ result' = GetEntriesContainingSequence(tree, translations, sequence, match)
    /\ UNCHANGED <<app_tree, tree, translations, languages, lowercase, inserted, file, saved>>

\* get_glyph_words(term, lang)
DoGetGlyphWords(term, lang) ==
    /\ result' = GetGlyphWords(tree, translations, languages, term, lang)
    /\ UNCHANGED <<app_tree, tree, translations, languages, lowercase, inserted, file, saved>>

\* get_entry taking the record out of the store (dict.pop) as it reads it
DoGetEntryPop(entry_id) ==
    /\ result' = GetEntry(translations, entry_id)
    /\ translations' = SelectSeq(translations, LAMBDA it : it.key # entry_id)
    /\ UNCHANGED <<app_tree, tree, languages, lowercase, inserted, file, saved>>

\* get_entry(entry_id)
DoGetEntry(entry_id) ==
    /\ result' = GetEntry(translations, entry_id)
    /\ UNCHANGED <<app_tree, tree, translations, languages, lowercase, inserted, file, saved>>

\* the loop of populate, lines 117-121: add_entry per item; its
\* DictionaryTreeException is not among the caught errors and ends the
\* loop, the AttributeError of lower() is caught and the entry skipped
RECURSIVE PopulateLoop(_, _, _, _)
PopulateLoop(t, ins, items, lc) ==
    IF Len(items) = 0 THEN [tree |-> t, inserted |-> ins, err |-> ""]
    ELSE LET entry == Head(items).entry
             entry_id == Head(items).key
         IN  IF ~IsValidEntry(entry)
             THEN [tree |-> t, inserted |-> ins, err |-> "invalid_entry"]
             ELSE IF ~IsValidEntryId(entry_id)
             THEN [tree |-> t, inserted |-> ins, err |-> "invalid_entry_id"]
             ELSE IF lc /\ ~AllStr(entry.syms)
             THEN PopulateLoop(t, ins, Tail(items), lc)
             ELSE PopulateLoop(AddEntryTree(t, lc, entry.syms, entry_id),
                               Append(ins, [entry |-> entry, id |-> entry_id]),
                               Tail(items), lc)

IsValidEntries(entries) == entries.isDict /\ Len(entries.items) # 0

\* populate without the call of __initialise
PopulateNoReset(entries, trs) ==
    /\ IF ~IsValidEntries(entries)
       THEN /\ result' = Raise("populate", <<>>, "invalid_entries")
            /\ UNCHANGED <<tree, translations, languages, inserted>>
       ELSE IF ~IsValidTranslations(trs)
       THEN /\ result' = Raise("populate", <<>>, "invalid_translations")
            /\ UNCHANGED <<tree, translations, languages, inserted>>
       ELSE LET done == PopulateLoop(tree, inserted, entries.items, lowercase)
            IN  /\ tree' = done.tree
                /\ inserted' = done.inserted
                /\ IF done.err # ""
                   THEN /\ translations' = <<>>
                        /\ languages' = {}
                        /\ result' = Raise("populate", <<>>, done.err)
                   ELSE IF ~trs.items[1].rec.hasTr
                   THEN /\ translations' = <<>>
                        /\ languages' = {}
                        /\ result' = Raise("populate", <<>>, "KeyError")
                   ELSE /\ translations' = trs.items
                        /\ languages' = FirstLanguages(trs.items)
                        /\ result' = Ok("populate", <<>>, <<>>)
    /\ UNCHANGED <<app_tree, lowercase, file, saved>>

\* populate(entries, translations), lines 107-122
Populate(entries, trs) ==
    /\ IF ~IsValidEntries(entries)
       THEN /\ result' = Raise("populate", <<>>, "invalid_entries")
            /\ UNCHANGED <<tree, translations, languages, inserted>>
       ELSE IF ~IsValidTranslations(trs)
       THEN /\ result' = Raise("populate", <<>>, "invalid_translations")
            /\ UNCHANGED <<tree, translations, languages, inserted>>
       ELSE LET done == PopulateLoop(EmptyTree, <<>>, entries.items, lowercase)
            IN  /\ tree' = done.tree
                /\ inserted' = done.inserted
                /\ IF done.err # ""
                   THEN /\ translations' = <<>>
                        /\ languages' = {}
                        /\ result' = Raise("populate", <<>>, done.err)
                   ELSE IF ~trs.items[1].rec.hasTr
                   THEN /\ translations' = <<>>
                        /\ languages' = {}
                        /\ result' = Raise("populate", <<>>, "KeyError")
                   ELSE /\ translations' = trs.items
                        /\ languages' = FirstLanguages(trs.items)
                        /\ result' = Ok("populate", <<>>, <<>>)
    /\ UNCHANGED <<app_tree, lowercase, file, saved>>

\* serialize(file_name), lines 376-389; io_ok: open() and json.dump succeed
Serialize(file_name, io_ok) ==
    /\ IF Len(file_name) = 0 \/ ~io_ok
       THEN /\ result' = Raise("serialize", file_name, "persistence")
            /\ UNCHANGED <<file, saved>>
       ELSE /\ file' = Document(tree, translations, inserted)
            /\ saved' = [exists |-> TRUE, tree |-> tree, translations |-> translations,
                         languages |-> languages, lowercase |-> lowercase]
            /\ result' = Ok("serialize", file_name, <<>>)
    /\ UNCHANGED <<app_tree, tree, translations, languages, lowercase, inserted>>

\* the instance is as its constructor left it
IsFresh == tree = EmptyTree /\ translations = <<>> /\ languages = {}

\* a document that serialize did not write is put at the path main.py
\* loads (main.py, line 34)
Install(doc) ==
    /\ file' = doc
    /\ saved' = NoSaved
    /\ result' = Ok("install", <<>>, <<>>)
    /\ UNCHANGED <<app_tree, tree, translations, languages, lowercase, inserted>>

\* deserialize(file_name), lines 396-407: self.tree is assigned (line 402)
\* before serialized_object['translations'] is read (line 403)
Deserialize(file_name) ==
    /\ IF Len(file_name) = 0 \/ ~file.exists
       THEN /\ result' = Raise("deserialize", file_name, "persistence")
            /\ UNCHANGED <<tree, translations, inserted>>
       ELSE IF ~file.decodable \/ ~file.hasTree
       THEN /\ result' = Raise("deserialize", file_name, "persistence")
            /\ UNCHANGED <<tree, translations, inserted>>
       ELSE IF ~file.hasTranslations
       THEN /\ tree' = file.tree
            /\ inserted' = file.inserted
            /\ result' = Raise("deserialize", file_name, "persistence")
            /\ UNCHANGED translations
       ELSE /\ tree' = file.tree
            /\ translations' = file.translations
            /\ inserted' = file.inserted
            /\ result' = Ok("deserialize", [file_name |-> file_name, fresh |-> IsFresh], <<>>)
    /\ UNCHANGED <<app_tree, languages, lowercase, file, saved>>

----------------------------------------------------------------------------
(* The trie: insertion, lookup and segmentation *)

TrieEntries ==
    { Tuple(<<"a">>), Tuple(<<"a", "b">>), Tuple(<<"a", "b", "a">>),
      Tuple(<<"a", "b", "c">>), Tuple(<<"A", "b">>),
      Tuple(<<>>), NotTuple(<<"a">>) }

TrieIds == { StrId("1"), StrId("2"), IntId("3"), StrId(""), NoneId }

En(s) == [l \in {"en"} |-> Text(s)]

TrieTranslations ==
    { Dict(<< [key |-> StrId("1"), rec |-> Rec(<<"a">>, En(<<"x">>))],
              [key |-> StrId("2"), rec |-> Rec(<<"a", "b">>, En(<<"y">>))] >>),
      Dict(<<>>), NotDict }

TrieSequences ==
    { List(<<"a">>), List(<<"a", "b">>), List(<<"a", "b", "a">>),
      List(<<"a", "b", "c">>), List(<<"A", "B">>), List(<<"b">>),
      List(<<"a", "c">>), List(<<>>), NotList(<<"a">>) }

TrieInputs == { List(<<"a", "b", "a">>), List(<<"b", "a", "b", "c">>),
                List(<<"c", "A">>), List(<<>>) }

NextTrie ==
    \/ \E lc \in BOOLEAN : Construct(lc)
    \/ \E entry \in TrieEntries, entry_id \in TrieIds : AddEntry(entry, entry_id)
    \/ \E trs \in TrieTranslations : SetTranslations(trs)
    \/ \E sequence \in TrieSequences : DoHasTreeEntry(sequence)
    \/ \E sequence \in TrieInputs : DoGetEntriesInSequence(sequence)

SpecTrie == Init /\ [][NextTrie]_vars

----------------------------------------------------------------------------
(* Claims about the trie *)

\* the symbols an entry or a sequence is stored and looked up under
Folded(syms) == IF lowercase THEN LowerSeq(syms) ELSE syms

\* the ids inserted under exactly the path `path`, in insertion order
IdsUnder(path) ==
    LET hits == SelectSeq(inserted, LAMBDA ins : Folded(ins.entry.syms) = path)
    IN  [k \in 1..Len(hits) |-> hits[k].id]

\* the ids of the rows a segmentation reported for the span <<n, e>>
RowIds(rows, span) ==
    LET hits == SelectSeq(rows, LAMBDA row : row.span = span)
    IN  [k \in 1..Len(hits) |-> hits[k].id]

\* C1: a segmentation of a non-empty input reports, for every window
\* sequence[n..i-1], exactly the ids inserted under that window's symbols
\* (none when no entry is that window).
SegmentationCompleteness ==
    (result.op = "get_entries_in_sequence" /\ result.ok) =>
        LET seq == Folded(result.arg.syms)
        IN  \A n \in 0..(Len(seq) - 1) : \A i \in (n + 1)..Len(seq) :
                RowIds(result.val, <<n, i - 1>>) = IdsUnder(SubSeq(seq, n + 1, i))

\* C2: once translations are installed, a lookup of the symbols of an entry
\* that was inserted with id I returns a list that contains I.
RoundTrip ==
    \A k \in 1..Len(inserted) :
        ( /\ result.op = "has_tree_entry"
          /\ result.arg = List(inserted[k].entry.syms)
          /\ Len(translations) > 0 )
        => /\ result.ok
           /\ \E j \in 1..Len(result.val.ids) : result.val.ids[j] = inserted[k].id

\* the length of the longest prefix of seq that is a path of the tree
Matched(seq) ==
    Cardinality({k \in 1..Len(seq) : \A j \in 1..k : SubSeq(seq, 1, j) \in DOMAIN tree})

\* C3: a lookup walks the whole sequence: (a) a symbol without a node gives
\* an empty list and the last symbol that matched ('-1' if none did), (b) a
\* full path without terminator gives an empty list and the last symbol,
\* (c) a full path with a terminator gives its id list and the last symbol.
LookupOutcomes ==
    (result.op = "has_tree_entry" /\ result.ok) =>
        LET seq == Folded(result.arg.syms)
            m == Matched(seq)
        IN  IF m < Len(seq)
            THEN result.val = [ids |-> <<>>, sym |-> IF m = 0 THEN terminator ELSE seq[m]]
            ELSE IF ~tree[seq].term
                 THEN result.val = [ids |-> <<>>, sym |-> seq[Len(seq)]]
                 ELSE result.val = [ids |-> tree[seq].ids, sym |-> seq[Len(seq)]]

\* C4: with exactly the entries (a,b) -> X and (a,b,c) -> Y inserted, in
\* either order, lookup([a,b]) returns [X] and lookup([a,b,c]) returns [Y].
PrefixCoexistence ==
    \A x \in 1..Len(inserted), y \in 1..Len(inserted) :
        ( /\ Len(inserted) = 2
          /\ inserted[x].entry.syms = <<"a", "b">>
          /\ inserted[y].entry.syms = <<"a", "b", "c">>
          /\ result.op = "has_tree_entry"
          /\ result.ok )
        => /\ result.arg = List(<<"a", "b">>) => result.val.ids = <<inserted[x].id>>
           /\ result.arg = List(<<"a", "b", "c">>) => result.val.ids = <<inserted[y].id>>

\* C5: with distinct ids I1 and then I2 inserted under one sequence E, and
\* nothing else, lookup(E) returns [I1, I2].
HomographStacking ==
    ( /\ Len(inserted) = 2
      /\ inserted[1].entry.syms = inserted[2].entry.syms
      /\ inserted[1].id # inserted[2].id
      /\ result.op = "has_tree_entry"
      /\ result.ok
      /\ result.arg = List(inserted[1].entry.syms) )
    => result.val.ids = <<inserted[1].id, inserted[2].id>>

----------------------------------------------------------------------------
(* The translation store: population, search and persistence *)

Item(id, word, tr) == [key |-> id, rec |-> Rec(word, tr)]

EnTl(en, tl) == [l \in {"en", "transliteration"} |-> IF l = "en" THEN en ELSE tl]

\* three entries in two languages, one value not a string
StoreGlyphs ==
    [ entries |-> Dict(<< [key |-> StrId("1"), entry |-> Tuple(<<"a">>)],
                          [key |-> StrId("2"), entry |-> Tuple(<<"a", "b">>)],
                          [key |-> StrId("3"), entry |-> Tuple(<<"B", "a", "b">>)] >>),
      translations |-> Dict(<<
          Item(StrId("1"), <<"a">>, EnTl(Text(<<"c", "a", "t">>), Text(<<"x">>))),
          Item(StrId("2"), <<"a", "b">>, EnTl(Text(<<"A", "C", "a">>), Text(<<"y">>))),
          Item(StrId("3"), <<"B", "a", "b">>, EnTl(NotText, Text(<<"a", "x">>))) >>) ]

\* integer entry ids, as the docstring of populate allows
StoreIntKeys ==
    [ entries |-> Dict(<< [key |-> IntId("1"), entry |-> Tuple(<<"a">>)],
                          [key |-> IntId("2"), entry |-> Tuple(<<"b", "a">>)] >>),
      translations |-> Dict(<<
          Item(IntId("1"), <<"a">>, En(<<"c", "a", "t">>)),
          Item(IntId("2"), <<"b", "a">>, En(<<"t">>)) >>) ]

\* the words "cat", "category", "concatenate", each one symbol
StoreCat ==
    [ entries |-> Dict(<< [key |-> StrId("1"), entry |-> Tuple(<<"cat">>)],
                          [key |-> StrId("2"), entry |-> Tuple(<<"category">>)],
                          [key |-> StrId("3"), entry |-> Tuple(<<"concatenate">>)] >>),
      translations |-> Dict(<<
          Item(StrId("1"), <<"cat">>, En(<<"c">>)),
          Item(StrId("2"), <<"category">>, En(<<"a">>)),
          Item(StrId("3"), <<"concatenate">>, En(<<"t">>)) >>) ]

\* the second record has no "en" translation
StoreUneven ==
    [ entries |-> Dict(<< [key |-> StrId("1"), entry |-> Tuple(<<"a">>)],
                          [key |-> StrId("2"), entry |-> Tuple(<<"a", "b">>)] >>),
      translations |-> Dict(<<
          Item(StrId("1"), <<"a">>, En(<<"c", "a", "t">>)),
          Item(StrId("2"), <<"a", "b">>,
               [l \in {"transliteration"} |-> Text(<<"y">>)]) >>) ]

\* arguments populate rejects
StoreBadEntries == [entries |-> NotDict, translations |-> StoreCat.translations]
StoreBadTranslations == [entries |-> StoreCat.entries, translations |-> Dict(<<>>)]
StoreBadId ==
    [ entries |-> Dict(<< [key |-> StrId("1"), entry |-> Tuple(<<"a">>)],
                          [key |-> StrId(""), entry |-> Tuple(<<"b">>)] >>),
      translations |-> StoreUneven.translations ]

StoreInputs == { StoreGlyphs, StoreIntKeys, StoreCat, StoreUneven,
                 StoreBadEntries, StoreBadTranslations, StoreBadId }

StoreIds == { StrId("1"), IntId("1"), StrId("2"), StrId("9"), IntId("9"),
              StrId(""), NoneId }

StoreSequences == { List(<<"a">>), List(<<"A", "B">>), List(<<"b">>), List(<<"cat">>),
                    List(<<"b", "a", "b">>), List(<<>>), NotList(<<"cat">>) }

StoreMatches == Matches \cup {"fuzzy"}

StoreTerms == { <<"c", "a">>, <<"A">>, <<"X">>, <<>> }

StoreLanguages == {"en", "transliteration", "fr"}

FileNames == { <<>>, <<"d", ".", "j", "s", "o", "n">> }

NextStore ==
    \/ \E lc \in BOOLEAN : Construct(lc)
    \/ \E input \in StoreInputs : Populate(input.entries, input.translations)
    \/ \E file_name \in FileNames, io_ok \in BOOLEAN : Serialize(file_name, io_ok)
    \/ \E file_name \in FileNames : Deserialize(file_name)
    \/ \E entry_id \in StoreIds : DoGetEntry(entry_id)
    \/ \E sequence \in StoreSequences, match \in StoreMatches :
            DoGetEntriesContainingSequence(sequence, match)
    \/ \E term \in StoreTerms, lang \in StoreLanguages : DoGetGlyphWords(term, lang)

SpecStore == Init /\ [][NextStore]_vars

----------------------------------------------------------------------------
(* Claims about the store, the searches and persistence *)

StringKeys(tr) == \A k \in 1..Len(tr) : tr[k].key.t = "str"

\* C6: after save of a populated instance (entry ids strings, as the
\* document keys them) and load of the document into a fresh instance built
\* with the same case policy, every lookup, segmentation, word search and
\* translation search gives what it gave on the saving instance.
PersistenceRoundTrip ==
    ( /\ result.op = "deserialize"
      /\ result.ok
      /\ result.arg.fresh
      /\ saved.exists
      /\ IsPopulated(saved.tree, saved.translations)
      /\ StringKeys(saved.translations)
      /\ lowercase = saved.lowercase )
    => /\ \A q \in StoreSequences :
            /\ HasTreeEntryCall(tree, translations, lowercase, q)
                 = HasTreeEntryCall(saved.tree, saved.translations, saved.lowercase, q)
            /\ GetEntriesInSequence(tree, translations, lowercase, q)
                 = GetEntriesInSequence(saved.tree, saved.translations, saved.lowercase, q)
            /\ \A m \in StoreMatches :
                 GetEntriesContainingSequence(tree, translations, q, m)
                   = GetEntriesContainingSequence(saved.tree, saved.translations, q, m)
       /\ \A term \in StoreTerms, lang \in saved.languages :
            GetGlyphWords(tree, translations, languages, term, lang)
              = GetGlyphWords(saved.tree, saved.translations, saved.languages, term, lang)

\* C7: on an installed store, get_entry(id) of a non-empty string or an
\* integer returns the stored record if id is a key and the empty record if
\* not; any other id fails with the validation error.
GetEntryContract ==
    (result.op = "get_entry" /\ Len(translations) > 0) =>
        LET id == result.arg
        IN  IF (id.t = "str" /\ id.s # "") \/ id.t = "int"
            THEN /\ result.ok
                 /\ result.val = IF \E k \in 1..Len(translations) : translations[k].key = id
                                 THEN Lookup(translations, id)
                                 ELSE EmptyRec
            ELSE /\ ~result.ok
                 /\ result.err = "invalid_entry_id"

\* the predicate of a search mode, on a lowercased query and word
Satisfies(query, word, mode) ==
    CASE mode = "exact" -> query = word
      [] mode = "starts_with" ->
            /\ Len(query) <= Len(word)
            /\ \A k \in 1..Len(query) : word[k] = query[k]
      [] mode = "contains" ->
            \E o \in 0..(Len(word) - Len(query)) :
                \A k \in 1..Len(query) : word[o + k] = query[k]
      [] OTHER -> FALSE

\* the items of the store whose word satisfies the mode against the query
Satisfying(query, mode) ==
    SelectSeq(translations, LAMBDA item :
        Satisfies(LowerSeq(query), LowerSeq(item.rec.word), mode))

\* C8 as stated: on a populated index a word search with a list query
\* returns the entry ids of exactly the records whose lowercased word
\* satisfies the mode against the lowercased query; an unknown mode fails
\* with the validation error.
FindMatchingWordsIds ==
    ( /\ result.op = "get_entries_containing_sequence"
      /\ IsPopulated(tree, translations)
      /\ IsValidSequence(result.arg.sequence) )
    => IF result.arg.match \notin {"exact", "starts_with", "contains"}
       THEN ~result.ok /\ result.err = "invalid_match"
       ELSE LET hits == Satisfying(result.arg.sequence.syms, result.arg.match)
            IN  /\ result.ok
                /\ Len(result.val) = Len(hits)
                /\ \A k \in 1..Len(hits) :
                      \E j \in 1..Len(result.val) : result.val[j] = hits[k].key

\* C8 as amended: the search returns, in store order, get_entry(id) for the
\* id of each of exactly those records (for a string id the stored record
\* itself, not the id), and fails as get_entry fails if it fails for one.
FindMatchingWordsRecords ==
    ( /\ result.op = "get_entries_containing_sequence"
      /\ IsPopulated(tree, translations)
      /\ IsValidSequence(result.arg.sequence) )
    => IF result.arg.match \notin {"exact", "starts_with", "contains"}
       THEN ~result.ok /\ result.err = "invalid_match"
       ELSE LET hits == Satisfying(result.arg.sequence.syms, result.arg.match)
                got == [k \in 1..Len(hits) |-> GetEntry(translations, hits[k].key)]
                bad == {k \in 1..Len(hits) : ~got[k].ok}
            IN  IF bad = {}
                THEN /\ result.ok
                     /\ result.val = [k \in 1..Len(hits) |-> got[k].val]
                     /\ StringKeys(translations) =>
                            result.val = [k \in 1..Len(hits) |-> hits[k].rec]
                ELSE /\ ~result.ok
                     /\ \E k \in bad : result.err = got[k].err

\* a 'contains' search found some records of the store and left others out
FindMatchingWordsWitness ==
    /\ result.op = "get_entries_containing_sequence"
    /\ result.ok
    /\ result.arg.match = "contains"
    /\ StringKeys(translations)
    /\ Len(result.val) > 0
    /\ Len(result.val) < Len(translations)

\* the store holds the words ["cat"], ["category"], ["concatenate"]
CatStore ==
    /\ Len(translations) = 3
    /\ translations[1].rec.word = <<"cat">>
    /\ translations[2].rec.word = <<"category">>
    /\ translations[3].rec.word = <<"concatenate">>

CatSearch(match) ==
    /\ CatStore
    /\ DOMAIN tree # {}
    /\ result.op = "get_entries_containing_sequence"
    /\ result.arg = [sequence |-> List(<<"cat">>), match |-> match]

\* C9 as stated: on that store a search for "cat" returns all three records
\* in mode starts_with and only the first in mode exact.
SearchModesExample ==
    /\ CatSearch("starts_with") =>
          /\ result.ok
          /\ result.val = <<translations[1].rec, translations[2].rec, translations[3].rec>>
    /\ CatSearch("exact") =>
          /\ result.ok
          /\ result.val = <<translations[1].rec>>

\* C9 as amended: a search for ["cat"] returns only the first record in
\* mode starts_with, and only the first in mode exact: symbols are compared
\* whole, and "category" is another symbol than "cat".
SearchModesWholeSymbols ==
    /\ CatSearch("starts_with") =>
          /\ result.ok
          /\ result.val = <<translations[1].rec>>
    /\ CatSearch("exact") =>
          /\ result.ok
          /\ result.val = <<translations[1].rec>>

SearchModesWitness == CatSearch("starts_with") /\ result.ok

\* every record has a value for each language of the first record
EvenLanguages(tr) ==
    \A k \in 1..Len(tr) :
        DOMAIN tr[k].rec.translations = DOMAIN tr[1].rec.translations

\* C10: on a populated store whose records share their languages, a search
\* by translation with a non-empty term fails with the unsupported-language
\* error if the language is not a language of the first record, and
\* otherwise returns exactly the records whose value for the language is a
\* string that contains the term, case ignored.
FindWordsByTranslation ==
    ( /\ result.op = "get_glyph_words"
      /\ IsPopulated(tree, translations)
      /\ EvenLanguages(translations)
      /\ Len(result.arg.term) > 0 )
    => IF result.arg.lang \notin DOMAIN translations[1].rec.translations
       THEN ~result.ok /\ result.err = "unsupported_language"
       ELSE LET lang == result.arg.lang
                term == LowerSeq(result.arg.term)
                hits == SelectSeq(translations, LAMBDA item :
                    /\ item.rec.translations[lang].isStr
                    /\ LET text == LowerSeq(item.rec.translations[lang].s)
                       IN  \E o \in 0..(Len(text) - Len(term)) :
                              \A k \in 1..Len(term) : text[o + k] = term[k])
            IN  /\ result.ok
                /\ result.val = [k \in 1..Len(hits) |-> hits[k].rec]


(***************************************************************************)
(* The index under insertion and population: add_entry, set_translations  *)
(* and populate in any order on one instance, with the segmentation        *)
(* reading it; then the same writes together with deserialize.             *)
(***************************************************************************)

IndexEntries == { Tuple(<<"a">>), Tuple(<<"a", "b">>), Tuple(<<"A", "b">>), Tuple(<<>>) }

IndexIds == { StrId("1"), IntId("2"), StrId("") }

\* two entries with their records
IndexPair ==
    [ entries |-> Dict(<< [key |-> StrId("1"), entry |-> Tuple(<<"a">>)],
                          [key |-> StrId("2"), entry |-> Tuple(<<"a", "b">>)] >>),
      translations |-> Dict(<<
          Item(StrId("1"), <<"a">>, En(<<"x">>)),
          Item(StrId("2"), <<"a", "b">>, En(<<"y">>)) >>) ]

\* the first entry has a symbol that is not a str
IndexIntSymbol ==
    [ entries |-> Dict(<< [key |-> StrId("5"), entry |-> Tuple(<<IntSymbol>>)],
                          [key |-> StrId("6"), entry |-> Tuple(<<"B">>)] >>),
      translations |-> Dict(<<
          Item(StrId("5"), <<IntSymbol>>, En(<<"s">>)),
          Item(StrId("6"), <<"B">>, En(<<"t">>)) >>) ]

\* the first record has no 'translations' key
IndexBareFirst ==
    [ entries |-> Dict(<< [key |-> StrId("1"), entry |-> Tuple(<<"b">>)] >>),
      translations |-> Dict(<< [key |-> StrId("1"), rec |-> BareRec(<<"b">>)] >>) ]

IndexInputs == { IndexPair, IndexIntSymbol, IndexBareFirst, StoreBadId, StoreBadEntries }

\* a document with one entry and its record, as deployed beside main.py
IndexDocument ==
    Document(AddEntryTree(EmptyTree, FALSE, <<"c">>, StrId("9")),
             << Item(StrId("9"), <<"c">>, En(<<"z">>)) >>,
             << [entry |-> Tuple(<<"c">>), id |-> StrId("9")] >>)

IndexSequences == TrieInputs \cup { NotList(<<"a">>) }

NextIndex ==
    \/ \E lc \in BOOLEAN : Construct(lc)
    \/ \E entry \in IndexEntries, entry_id \in IndexIds : AddEntry(entry, entry_id)
    \/ \E trs \in TrieTranslations : SetTranslations(trs)
    \/ \E input \in IndexInputs : Populate(input.entries, input.translations)
    \/ \E sequence \in IndexSequences : DoGetEntriesInSequence(sequence)

SpecIndex == Init /\ [][NextIndex]_vars

\* the same instance without its reads: the writes in any order
NextWrites ==
    \/ \E lc \in BOOLEAN : Construct(lc)
    \/ \E entry \in IndexEntries, entry_id \in IndexIds : AddEntry(entry, entry_id)
    \/ \E trs \in TrieTranslations : SetTranslations(trs)
    \/ \E input \in IndexInputs : Populate(input.entries, input.translations)
    \/ Install(IndexDocument)
    \/ \E file_name \in FileNames : Deserialize(file_name)

SpecWrites == Init /\ [][NextWrites]_vars

\* the windows sequence[n..i-1] of a sequence, as symbol lists
AllWindows(syms) ==
    { SubSeq(syms, n, i) : n \in 1..Len(syms), i \in 1..Len(syms) } \ { <<>> }

HoldsExactly(t, items) ==
    LET prefixes(syms) == { SubSeq(syms, 1, n) : n \in 1..Len(syms) }
        paths == UNION { prefixes(Folded(items[k].entry.syms)) : k \in 1..Len(items) }
        ends(p) == SelectSeq(items, LAMBDA it : Folded(it.entry.syms) = p)
    IN  /\ DOMAIN t = paths
        /\ \A p \in paths :
              /\ t[p].ids = [k \in 1..Len(ends(p)) |-> ends(p)[k].key]
              /\ t[p].term = (Len(ends(p)) > 0)

\* every symbol of every entry is a string
Symbols(items) == \A k \in 1..Len(items) : AllStr(items[k].entry.syms)

\* C12: after any earlier operations a successful populate(entries,
\* translations), the entries being sequences of string symbols, leaves the
\* trie holding exactly the paths and ids of the entries of the call, the
\* translation store equal to the given translations and the languages
\* those of its first record.
PopulateResetsBothStores ==
    [][(result'.op = "populate" /\ result'.ok) =>
       \A input \in IndexInputs :
          (Populate(input.entries, input.translations) /\ Symbols(input.entries.items))
          => /\ HoldsExactly(tree', input.entries.items)
             /\ translations' = input.translations.items
             /\ languages' = DOMAIN input.translations.items[1].rec.translations]_vars

\* a populate of two entries succeeded with a document installed
PopulateAfterLoadWitness ==
    /\ result.op = "populate"
    /\ result.ok
    /\ file.exists
    /\ lowercase
    /\ DOMAIN tree = { <<"a">>, <<"a", "b">> }
    /\ Len(translations) = 2


(***************************************************************************)
(* The five reads on an instance that populate fills.                      *)
(***************************************************************************)

ReadInputs == { StoreGlyphs, StoreIntKeys, StoreUneven, IndexIntSymbol, StoreBadId }

NextReads ==
    \/ \E lc \in BOOLEAN : Construct(lc)
    \/ \E input \in ReadInputs : Populate(input.entries, input.translations)
    \/ \E sequence \in TrieSequences : DoHasTreeEntry(sequence)
    \/ \E sequence \in IndexSequences : DoGetEntriesInSequence(sequence)
    \/ \E sequence \in StoreSequences, match \in StoreMatches :
            DoGetEntriesContainingSequence(sequence, match)
    \/ \E term \in StoreTerms, lang \in StoreLanguages : DoGetGlyphWords(term, lang)
    \/ \E entry_id \in StoreIds : DoGetEntry(entry_id)

SpecReads == Init /\ [][NextReads]_vars

ReadOps == { "has_tree_entry", "get_entries_in_sequence",
             "get_entries_containing_sequence", "get_glyph_words", "get_entry" }

\* C13: a step of has_tree_entry, get_entries_in_sequence,
\* get_entries_containing_sequence, get_glyph_words or get_entry, returning
\* or raising, leaves tree, translations, languages and lowercase as they
\* were.
ReadsChangeNothing ==
    [][result'.op \in ReadOps
         => UNCHANGED <<tree, translations, languages, lowercase>>]_vars

\* a read raised on an instance that holds entries and records
ReadRaisedWitness ==
    /\ result.op \in ReadOps
    /\ ~result.ok
    /\ DOMAIN tree # {}
    /\ Len(translations) > 0


(***************************************************************************)
(* main.py: the module loads the dictionary when it is imported and serves *)
(* POST /translation.  A payload is a JSON object with or without the key  *)
(* 'sequence', or a body that is not JSON; the sequences of the requests   *)
(* hold strings.                                                           *)
(***************************************************************************)

\* a response: an HTTP status and, when it is 200, the list `result`
Response(arg, status, items) ==
    [op |-> "request", arg |-> arg, ok |-> status = 200,
     err |-> IF status = 200 THEN "" ELSE "HTTPException",
     val |-> [status |-> status, result |-> items]]

\* lines 31-37: tree = DictionaryTree(); tree.deserialize(path); tree = None
\* when deserialize raises
Import ==
    LET read == file.exists /\ file.decodable
    IN  /\ lowercase' = TRUE
        /\ languages' = {}
        /\ tree' = IF read /\ file.hasTree THEN file.tree ELSE EmptyTree
        /\ inserted' = IF read /\ file.hasTree THEN file.inserted ELSE <<>>
        /\ translations' = IF read /\ file.hasTree /\ file.hasTranslations
                           THEN file.translations ELSE <<>>
        /\ app_tree' = IF read /\ file.hasTree /\ file.hasTranslations
                       THEN "DictionaryTree" ELSE "None"
        /\ result' = Ok("import", <<>>, <<>>)
        /\ UNCHANGED <<file, saved>>

\* lines 122-129: the translations of a record other than the one under
\* 'transliteration', one {locale, translation} object per key
RECURSIVE Locales(_, _)
Locales(tr, keys) ==
    IF keys = {} THEN <<>>
    ELSE LET key == CHOOSE k \in keys : TRUE
         IN  IF key = "transliteration" THEN Locales(tr, keys \ {key})
             ELSE <<[locale |-> key, translation |-> tr[key]]>>
                  \o Locales(tr, keys \ {key})

\* lines 114-131: the response_dict of one entry of the segmentation
ResponseDict(entry) ==
    LET base == [start |-> entry.span[1], end |-> entry.span[2],
                 sequence |-> entry.rec.word,
                 translations |-> Locales(entry.rec.translations,
                                          DOMAIN entry.rec.translations)]
    IN  IF "transliteration" \in DOMAIN entry.rec.translations
        THEN base @@ [transliteration |-> entry.rec.translations["transliteration"]]
        ELSE base

\* classification under require_json(['sequence']), lines 79-91 and 105-137
Classification(arg, payload) ==
    IF ~payload.isJson THEN Response(arg, 400, <<>>)
    ELSE IF ~payload.hasSequence \/ Len(payload.sequence.syms) = 0
         THEN Response(arg, 400, <<>>)
    ELSE IF ~payload.sequence.isList THEN Response(arg, 400, <<>>)
    ELSE IF app_tree = "None" THEN Response(arg, 500, <<>>)
    ELSE LET entries == GetEntriesInSequence(tree, translations, lowercase,
                                             payload.sequence)
         IN  IF ~entries.ok THEN Response(arg, 500, <<>>)
             ELSE IF \E k \in 1..Len(entries.val) :
                        ~entries.val[k].rec.present \/ ~entries.val[k].rec.hasTr
                  THEN Response(arg, 500, <<>>)
             ELSE Response(arg, 200,
                           [k \in 1..Len(entries.val) |-> ResponseDict(entries.val[k])])

\* the URL map of app: the one route of line 102
Dispatch(method, path, payload) ==
    LET arg == [method |-> method, path |-> path, payload |-> payload]
    IN  IF path # "/translation" THEN Response(arg, 404, <<>>)
        ELSE IF method # "POST" THEN Response(arg, 405, <<>>)
        ELSE Classification(arg, payload)

\* one request served by app
Request(method, path, payload) ==
    /\ result' = Dispatch(method, path, payload)
    /\ UNCHANGED <<tree, translations, languages, lowercase, inserted, file, saved,
                   app_tree>>

NotJson == [isJson |-> FALSE, hasSequence |-> FALSE, sequence |-> List(<<>>)]
Json == [isJson |-> TRUE, hasSequence |-> FALSE, sequence |-> List(<<>>)]
JsonSequence(sequence) == [isJson |-> TRUE, hasSequence |-> TRUE, sequence |-> sequence]

\* the entries a, a b and c, each record with a transliteration
AppGlyphs ==
    [ entries |-> << [key |-> StrId("1"), entry |-> Tuple(<<"a">>)],
                     [key |-> StrId("2"), entry |-> Tuple(<<"a", "b">>)],
                     [key |-> StrId("3"), entry |-> Tuple(<<"c">>)] >>,
      translations |-> <<
          Item(StrId("1"), <<"a">>, EnTl(Text(<<"x">>), Text(<<"t">>))),
          Item(StrId("2"), <<"a", "b">>, EnTl(Text(<<"y">>), Text(<<"u">>))),
          Item(StrId("3"), <<"c">>, EnTl(Text(<<"z">>), Text(<<"v">>))) >> ]

\* the record of c has no translation under 'transliteration'
AppNoTransliteration ==
    [ entries |-> AppGlyphs.entries,
      translations |-> <<
          Item(StrId("1"), <<"a">>, EnTl(Text(<<"x">>), Text(<<"t">>))),
          Item(StrId("2"), <<"a", "b">>, EnTl(Text(<<"y">>), Text(<<"u">>))),
          Item(StrId("3"), <<"c">>, En(<<"z">>)) >> ]

\* the entry c has no record
AppNoRecord ==
    [ entries |-> AppGlyphs.entries,
      translations |-> SubSeq(AppGlyphs.translations, 1, 2) ]

\* the document of a dictionary: what serialize writes for it
AppDocument(dictionary) ==
    LET done == PopulateLoop(EmptyTree, <<>>, dictionary.entries, TRUE)
    IN  Document(done.tree, dictionary.translations, done.inserted)

Undecodable ==
    [exists |-> TRUE, decodable |-> FALSE, hasTree |-> FALSE, hasTranslations |-> FALSE,
     tree |-> EmptyTree, translations |-> <<>>, inserted |-> <<>>]

AppDocuments == { AppDocument(AppGlyphs), AppDocument(AppNoTransliteration),
                  AppDocument(AppNoRecord), Undecodable }

Methods == { "GET", "POST" }

Paths == { "/translation", "/_ah/warmup", "/unknown" }

Payloads == { NotJson, Json, JsonSequence(List(<<>>)), JsonSequence(NotList(<<"a">>)),
              JsonSequence(List(<<"a">>)), JsonSequence(List(<<"A", "b">>)),
              JsonSequence(List(<<"b", "c">>)), JsonSequence(List(<<"b">>)) }

NextApp ==
    \/ \E doc \in AppDocuments : Install(doc)
    \/ Import
    \/ \E method \in Methods, path \in Paths, payload \in Payloads :
            Request(method, path, payload)

SpecApp == Init /\ [][NextApp]_vars

\* C14: every item of the result of a POST /translation answered 200 has
\* integer start and end, a sequence list, a translations list of
\* {locale, translation} objects and a string transliteration field; the
\* record's translation under 'transliteration' is in that field only and
\* every other language of the record is in the translations list once.
ResponseShape ==
    ( /\ result.op = "request"
      /\ result.val.status = 200
      /\ result.arg.path = "/translation" )
    => LET entries == GetEntriesInSequence(tree, translations, lowercase,
                                           result.arg.payload.sequence).val
           items == result.val.result
       IN  /\ Len(items) = Len(entries)
           /\ \A k \in 1..Len(items) :
                 LET item == items[k]
                     tr == entries[k].rec.translations
                 IN  /\ {"start", "end", "sequence", "translations", "transliteration"}
                            \subseteq DOMAIN item
                     /\ item.start \in Nat /\ item.end \in Nat
                     /\ item.sequence \in Seq({"a", "b", "c"})
                     /\ item.transliteration.isStr
                     /\ item.transliteration = tr["transliteration"]
                     /\ \A j \in 1..Len(item.translations) :
                           item.translations[j].locale # "transliteration"
                     /\ \A l \in DOMAIN tr \ {"transliteration"} :
                           Cardinality({ j \in 1..Len(item.translations) :
                               item.translations[j]
                                   = [locale |-> l, translation |-> tr[l]] }) = 1
                     /\ Len(item.translations) = Cardinality(DOMAIN tr \ {"transliteration"})

\* C15: a GET request to /_ah/warmup is answered with status 200.
WarmupAnswered ==
    ( /\ result.op = "request"
      /\ result.arg.method = "GET"
      /\ result.arg.path = "/_ah/warmup" )
    => result.val.status = 200


\* one instance under add_entry alone
NextInsert ==
    \/ \E lc \in BOOLEAN : Construct(lc)
    \/ \E entry \in IndexEntries \cup { Tuple(<<"a", "b", "a">>) }, entry_id \in IndexIds :
            AddEntry(entry, entry_id)

SpecInsert == Init /\ [][NextInsert]_vars

\* every node holds exactly the ids inserted under its path, in insertion
\* order, and has a terminator only if an entry ends there; every inserted
\* entry has its node
TerminatorsAreInsertions ==
    /\ \A p \in DOMAIN tree :
          /\ tree[p].ids = IdsUnder(p)
          /\ tree[p].term = (Len(IdsUnder(p)) > 0)
    /\ \A k \in 1..Len(inserted) : Folded(inserted[k].entry.syms) \in DOMAIN tree

\* C16: at every node the terminator list is the list of the ids inserted
\* under its (lowercased) path, in insertion order, and there is no
\* terminator where no entry ended; an accepted add_entry(E, I) removes no
\* node, changes no node other than that of E, and at the node of E only
\* appends I.
TrieIntegrity ==
    [][/\ TerminatorsAreInsertions'
       /\ (result'.op = "add_entry" /\ result'.ok) =>
             LET path == Folded(result'.arg.entry.syms)
                 before == IF path \in DOMAIN tree THEN tree[path].ids ELSE <<>>
             IN  /\ DOMAIN tree \subseteq DOMAIN tree'
                 /\ \A p \in DOMAIN tree \ {path} : tree'[p] = tree[p]
                 /\ tree'[path] = [term |-> TRUE,
                                   ids |-> Append(before, result'.arg.id)]]_vars

\* a node with a child carries two ids, the second appended to the first
TrieIntegrityWitness ==
    /\ result.op = "add_entry"
    /\ result.ok
    /\ <<"a">> \in DOMAIN tree
    /\ <<"a", "b">> \in DOMAIN tree
    /\ Len(tree[<<"a">>].ids) = 2
    /\ tree[<<"a">>].ids[2] = result.arg.id
    /\ tree[<<"a">>].ids[1] # result.arg.id


(***************************************************************************)
(* Loading: documents that serialize wrote and documents put at the path   *)
(* by other means, read by deserialize on an instance that populate fills. *)
(***************************************************************************)

\* a decodable document without the key 'translations'
NoTranslationsDocument ==
    [exists |-> TRUE, decodable |-> TRUE, hasTree |-> TRUE, hasTranslations |-> FALSE,
     tree |-> IndexDocument.tree, translations |-> <<>>,
     inserted |-> IndexDocument.inserted]

\* a decodable document without the key 'tree'
NoTreeDocument ==
    [exists |-> TRUE, decodable |-> TRUE, hasTree |-> FALSE, hasTranslations |-> TRUE,
     tree |-> EmptyTree, translations |-> IndexDocument.translations, inserted |-> <<>>]

LoadDocuments == { IndexDocument, Undecodable, NoTreeDocument, NoTranslationsDocument }

NextLoad ==
    \/ \E lc \in BOOLEAN : Construct(lc)
    \/ \E input \in IndexInputs : Populate(input.entries, input.translations)
    \/ \E doc \in LoadDocuments : Install(doc)
    \/ \E file_name \in FileNames, io_ok \in BOOLEAN : Serialize(file_name, io_ok)
    \/ \E file_name \in FileNames : Deserialize(file_name)

SpecLoad == Init /\ [][NextLoad]_vars

\* C17: a deserialize that raises leaves the trie and the translation store
\* as they were before the call, and one that returns has replaced both by
\* those of the document: the two are replaced together or not at all.
LoadFailureKeepsState ==
    [][result'.op = "deserialize" =>
         IF result'.ok
         THEN tree' = file.tree /\ translations' = file.translations
         ELSE UNCHANGED <<tree, translations>>]_vars

\* C18: a populate that raises leaves the trie, the translation store and
\* the language set as they were before the call.
PopulateAllOrNothing ==
    [][(result'.op = "populate" /\ ~result'.ok)
         => UNCHANGED <<tree, translations, languages>>]_vars

============================================================================
